---- MODULE Spec2Model ----
(***************************************************************************)
(* Model of textual_imageview.img.ImageView: the viewport (zoom level,     *)
(* origin, container size), the per-level cache of resized images and of   *)
(* rendered segments, the coordinate mapper and the renderer.              *)
(*                                                                         *)
(* A resized image is represented by its size; its pixels are abstract     *)
(* values <<level, x, y>>, so that a cell sampled from one level's image   *)
(* differs from a cell sampled from another's.                             *)
(***************************************************************************)
EXTENDS Integers, Sequences, FiniteSets, TLC

\* ------------------------------------------------------------------ bounds
\* Highest zoom level a call may request (levels are unbounded in the code).
MaxZoom == 2

\* Most segments the segment cache holds before get_segment calls stop.
MaxCached == 3

\* ------------------------------------------------------- program constants
\* ZOOM_RATE = 0.8 = RateNum / RateDen
RateNum == 4
RateDen == 5
\* the "upper bound on zoom" threshold of set_zoom
MinDim == 8

\* Python's None (also: attribute not assigned yet)
None == <<>>

\* ------------------------------------------------------------- input sets
\* sizes (w, h) of the PIL image handed to the constructor
ImageSizes == {<<10, 12>>}
\* constructor arguments
InitZooms == {-1, 0, 1}
InitOrigins == {<<0, 0>>, <<3, -5>>}
InitContainers == {None, <<4, 3>>}
\* move(delta_x, delta_y): the key bindings of app.py
MoveDeltas == {<<1, 0>>, <<-1, 0>>, <<0, 1>>, <<0, -1>>}
\* further deltas: the fast key bindings of app.py and a mouse drag
FastDeltas == {<<3, 0>>, <<-3, 0>>, <<0, 3>>, <<0, -3>>, <<-2, 4>>}
\* zoom(delta): the key bindings of app.py
ZoomDeltas == {-2, -1, 1, 2}
\* zoom(delta, zoom_position): the mouse scroll handlers of viewer.py
ScrollDeltas == {-1, 1}
\* set_zoom(zoom)
ZoomLevels == -1 .. MaxZoom
\* explicit zoom_position arguments (image space)
Anchors == {<<5, 9>>}
\* set_container_size(width, height)
ContainerSizes == {<<4, 3>>, <<3, 2>>, <<0, 1>>}
\* set_container_size(width, height): sizes a resize leads to, of even and of
\* odd width
NewSizes == {<<w, h>> : w \in 1 .. 6, h \in 1 .. 4}
\* set_container_size(width, height) with no cell on an axis
DegenerateSizes == {<<0, 1>>, <<0, 3>>, <<0, 0>>, <<2, 0>>, <<-1, 2>>,
                    <<2, -1>>, <<-1, -1>>}
\* values assigned to origin_position directly
OriginValues == {<<-20, -20>>, <<100, 100>>}

\* the scenario of the design document: a 16 x 16 image in a container of
\* 8 x 4 cells
ScenarioImage == <<16, 16>>
ScenarioContainer == <<8, 4>>
\* the inputs of the specification with get_segment and __rich_console__
CacheImage == <<10, 12>>
CacheContainers == {<<2, 1>>}
CacheProbes == {<<0, -1>>, <<1, 0>>}
CacheZoomLevels == {-1, 0, 1, 2}

\* arguments of rowcol_to_xy and xy_to_rowcol
CellRows == -2 .. 3
CellCols == -2 .. 3
Offsets == {<<0, 0>>, <<1, 2>>, <<-2, 1>>}
PointXs == -3 .. 3
EvenYs == {-4, -2, 0, 2, 4}

\* ---------------------------------------------------------------- helpers
Min(a, b) == IF a <= b THEN a ELSE b
Max(a, b) == IF a >= b THEN a ELSE b

RECURSIVE Pow(_, _)
Pow(b, e) == IF e <= 0 THEN 1 ELSE b * Pow(b, e - 1)

\* Python round(num / den) for den > 0: to nearest, ties to the even integer
Round(num, den) ==
    LET q == num \div den
        r == num % den
    IN  IF 2 * r < den THEN q
        ELSE IF 2 * r > den THEN q + 1
        ELSE IF q % 2 = 0 THEN q ELSE q + 1

\* size of image.resize((round(w * multiplier), round(h * multiplier))),
\* multiplier = ZOOM_RATE ** level
ResizedSize(size, level) ==
    IF level >= 0
    THEN <<Round(size[1] * Pow(RateNum, level), Pow(RateDen, level)),
           Round(size[2] * Pow(RateNum, level), Pow(RateDen, level))>>
    ELSE <<Round(size[1] * Pow(RateDen, -level), Pow(RateNum, -level)),
           Round(size[2] * Pow(RateDen, -level), Pow(RateNum, -level))>>

\* ------------------------------------------------------------------ state
VARIABLES
    image,            \* self.image.size
    images,           \* self.images: level -> size of the resized image
    segment_cache,    \* self.segment_cache: level -> (position -> Segment)
    zoom,             \* self._zoom
    container_size,   \* self._container_size: None or <<w, h>>
    origin_position,  \* self._origin_position: None (unassigned) or <<x, y>>
    raised,           \* exception that ended the constructor, or "none"
    last              \* the last call made: its name and arguments

vars == <<image, images, segment_cache, zoom, container_size, origin_position,
          raised, last>>

\* the object exists: __init__ returned
Constructed == raised = "none"

\* the zoomed_size property, on given attribute values
ZoomedSizeOf(imgs, z) == imgs[z]

zoomed_size == ZoomedSizeOf(images, zoom)

\* (mutant) the setter without its two upper bounds
ClampOriginNoUpper(value, img_size, container) ==
    LET w == IF container # None THEN container[1] ELSE 0
        h == IF container # None THEN container[2] * 2 ELSE 0
    IN  <<IF value[1] <= -w + 1 THEN -w + 1 ELSE value[1],
          IF value[2] <= -h + 1 THEN -h + 1 ELSE value[2]>>

\* the origin_position setter: the value it stores
ClampOrigin(value, img_size, container) ==
    LET w == IF container # None THEN container[1] ELSE 0
        h == IF container # None THEN container[2] * 2 ELSE 0
        x1 == IF value[1] <= -w + 1 THEN -w + 1 ELSE value[1]
        x2 == IF x1 >= img_size[1] - 1 THEN img_size[1] - 1 ELSE x1
        y1 == IF value[2] <= -h + 1 THEN -h + 1 ELSE value[2]
        y2 == IF y1 >= img_size[2] - 1 THEN img_size[2] - 1 ELSE y1
    IN  <<x2, y2>>


\* ------------------------------------------------------------ set_zoom
\* (mutant) no lower bound
ZoomFloorMissing(z) == z

\* "Lower bound on zoom": zoom = max(zoom, 0)
ZoomFloor(z) == Max(z, 0)

\* (mutant) the threshold compared with < instead of <=
UpperBoundHitStrict(z, cur, cur_size) ==
    z > cur /\ Min(cur_size[1], cur_size[2]) < MinDim

\* (mutant) the threshold compared with the requested level's image
UpperBoundHitTarget(z, cur, cur_size) ==
    z > cur /\ Min(ResizedSize(image, z)[1], ResizedSize(image, z)[2]) <= MinDim

\* "Upper bound on zoom": the condition under which the request is dropped
UpperBoundHit(z, cur, cur_size) ==
    z > cur /\ Min(cur_size[1], cur_size[2]) <= MinDim

\* (mutant) the bottom edge of the container, 2 * h pixels below the origin
DefaultZoomPositionBottom(origin, container) ==
    <<origin[1] + container[1] \div 2, origin[2] + 2 * container[2]>>

\* the zoom position used when the caller gives none
DefaultZoomPosition(origin, container) ==
    <<origin[1] + container[1] \div 2, origin[2] + container[2]>>

\* (mutant) old and new size exchanged
ZoomShiftSwapped(old_zoom, old_len, new_len) ==
    Round(old_zoom * (old_len - new_len), new_len)

\* (mutant) the scaled position taken for the shift: round(new_zoom)
ZoomShiftNoDifference(old_zoom, old_len, new_len) ==
    Round(old_zoom * new_len, old_len)

\* round(new_zoom - old_zoom), new_zoom = old_zoom * (new_len / old_len)
ZoomShift(old_zoom, old_len, new_len) ==
    Round(old_zoom * (new_len - old_len), old_len)

\* (mutant) self._zoom assigned after origin_position: the setter still sees
\* the old level's size
SizeAtAssignmentLate(old, new) == old

\* the zoomed_size the origin_position setter sees in set_zoom: self._zoom is
\* assigned first
SizeAtAssignment(old, new) == new

\* self.images / self.segment_cache after "if zoom not in self.images: ..."
WithLevel(imgs, size, z) ==
    IF z \in DOMAIN imgs THEN imgs
    ELSE [l \in DOMAIN imgs \cup {z} |->
             IF l = z THEN ResizedSize(size, z) ELSE imgs[l]]

\* (mutant) the level's segment cache emptied by every set_zoom
WithCacheEmptied(imgs, cache, z) ==
    [l \in DOMAIN cache \cup {z} |-> IF l = z THEN <<>> ELSE cache[l]]

\* both are assigned under the one test "zoom not in self.images"
WithCache(imgs, cache, z) ==
    IF z \in DOMAIN imgs THEN cache
    ELSE [l \in DOMAIN cache \cup {z} |-> IF l = z THEN <<>> ELSE cache[l]]

\* set_zoom(zoom_arg, zoom_position) on the given attribute values: the
\* attribute values it leaves, its locals, and the exception that ended it
SetZoomCall(size, imgs, cache, cur, container, origin, zoom_arg, zoom_position) ==
    LET z0 == ZoomFloor(zoom_arg)
        unchanged == [raised |-> "none", images |-> imgs, segment_cache |-> cache,
                      zoom |-> cur, origin_position |-> origin,
                      target |-> z0, anchor |-> None, value |-> None]
    IN  IF z0 > cur /\ cur \notin DOMAIN imgs
        THEN [unchanged EXCEPT !.raised = "KeyError"]
        ELSE
        LET z == IF z0 > cur /\ UpperBoundHit(z0, cur, imgs[cur]) THEN cur ELSE z0
            imgs2 == WithLevel(imgs, size, z)
            cache2 == WithCache(imgs, cache, z)
            cached == [unchanged EXCEPT !.images = imgs2, !.segment_cache = cache2,
                                        !.target = z]
        IN  IF container = None THEN cached
            ELSE IF origin = None THEN [cached EXCEPT !.raised = "AttributeError"]
            ELSE
            LET anchor == IF zoom_position = None
                          THEN DefaultZoomPosition(origin, container)
                          ELSE zoom_position
                old == imgs2[cur]
                new == imgs2[z]
                value == <<origin[1] + ZoomShift(anchor[1], old[1], new[1]),
                           origin[2] + ZoomShift(anchor[2], old[2], new[2])>>
            IN  [cached EXCEPT !.zoom = z,
                               !.origin_position =
                                   ClampOrigin(value, SizeAtAssignment(old, new),
                                               container),
                               !.anchor = anchor, !.value = value]

\* set_zoom(level, zoom_position) called in the current state
SetZoomNow(level, zoom_position) ==
    SetZoomCall(image, images, segment_cache, zoom, container_size,
                origin_position, level, zoom_position)

Call(op, args) == [op |-> op, args |-> args]

\* ------------------------------------------------------------ __init__
\* the state in which ImageView(image, zoom, origin_position, container_size)
\* returns or raises
InitWith(size, z, o, c) ==
    LET r == SetZoomCall(size, <<>>, <<>>, 0, c, None, z, None)
        \* the setter reads self.images[self._zoom]
        exc == IF r.raised # "none" THEN r.raised
               ELSE IF 0 \notin DOMAIN r.images THEN "KeyError"
               ELSE "none"
    IN  /\ image = size
        /\ images = r.images
        /\ segment_cache = r.segment_cache
        /\ zoom = 0
        /\ container_size = c
        /\ raised = exc
        /\ origin_position =
               IF exc = "none" THEN ClampOrigin(o, r.images[0], c) ELSE None
        /\ last = Call("__init__", <<z, o, c>>)

Init ==
    \E size \in ImageSizes, z \in InitZooms, o \in InitOrigins,
       c \in InitContainers : InitWith(size, z, o, c)

\* ------------------------------------------------------------ operations
\* set_zoom(level, zoom_position)
SetZoom(level, zoom_position) ==
    /\ Constructed
    /\ LET r == SetZoomNow(level, zoom_position)
       IN  /\ images' = r.images
           /\ segment_cache' = r.segment_cache
           /\ zoom' = r.zoom
           /\ origin_position' = r.origin_position
    /\ last' = Call("set_zoom", <<level, zoom_position>>)
    /\ UNCHANGED <<image, container_size, raised>>

\* zoom(delta, zoom_position): set_zoom(self._zoom + delta, zoom_position)
Zoom(delta, zoom_position) ==
    /\ Constructed
    /\ zoom + delta <= MaxZoom
    /\ LET r == SetZoomNow(zoom + delta, zoom_position)
       IN  /\ images' = r.images
           /\ segment_cache' = r.segment_cache
           /\ zoom' = r.zoom
           /\ origin_position' = r.origin_position
    /\ last' = Call("zoom", <<delta, zoom_position>>)
    /\ UNCHANGED <<image, container_size, raised>>

\* (mutant) the delta added instead of subtracted
MoveValueAdded(origin, delta) == <<origin[1] + delta[1], origin[2] + delta[2]>>

\* move(delta_x, delta_y): the value it assigns to origin_position
MoveValue(origin, delta) == <<origin[1] - delta[1], origin[2] - delta[2]>>

\* move(delta_x, delta_y): the origin it leaves
MoveCall(origin, img_size, container, delta) ==
    ClampOrigin(MoveValue(origin, delta), img_size, container)

Move(delta) ==
    /\ Constructed
    /\ origin_position' =
           MoveCall(origin_position, zoomed_size, container_size, delta)
    /\ last' = Call("move", delta)
    /\ UNCHANGED <<image, images, segment_cache, zoom, container_size, raised>>

\* assignment to the origin_position property
SetOrigin(value) ==
    /\ Constructed
    /\ origin_position' = ClampOrigin(value, zoomed_size, container_size)
    /\ last' = Call("origin_position", value)
    /\ UNCHANGED <<image, images, segment_cache, zoom, container_size, raised>>

\* (mutant) every half cell of width change rounded down
CenteredOriginFloor(origin, old, new) ==
    <<(2 * origin[1] - (new[1] - old[1])) \div 2, origin[2] - (new[2] - old[2])>>

\* set_container_size: the origin computed under maintain_center
CenteredOrigin(origin, old, new) ==
    LET delta_w == new[1] - old[1]
        delta_h == new[2] - old[2]
        x == IF new[1] = old[1] THEN origin[1]
             ELSE IF delta_w % 2 = 0 THEN origin[1] - delta_w \div 2
             ELSE IF new[1] % 2 = 0
                  THEN (2 * origin[1] - delta_w) \div 2
                  ELSE (2 * origin[1] - delta_w) \div 2 + 1
        y == IF new[2] = old[2] THEN origin[2] ELSE origin[2] - delta_h
    IN  <<x, y>>

\* set_container_size(width, height, maintain_center): the origin it leaves
SetContainerSizeCall(origin, img_size, container, new, maintain_center) ==
    LET o1 == IF maintain_center /\ container # None
              THEN ClampOrigin(CenteredOrigin(origin, container, new),
                               img_size, container)
              ELSE origin
    IN  ClampOrigin(o1, img_size, new)

SetContainerSize(new, maintain_center) ==
    /\ Constructed
    /\ container_size' = new
    /\ origin_position' =
           SetContainerSizeCall(origin_position, zoomed_size, container_size,
                                new, maintain_center)
    /\ last' = Call("set_container_size", <<new, maintain_center>>)
    /\ UNCHANGED <<image, images, segment_cache, zoom, raised>>

\* ------------------------------------------------------ coordinate mapper
\* (mutant) a row taken for one pixel instead of two
RowColToXYSingle(origin, row, col, offset) ==
    <<origin[1] + col - offset[2], origin[2] + (row - offset[1])>>

\* rowcol_to_xy(row, col, offset), offset = (offset_row, offset_col)
RowColToXY(origin, row, col, offset) ==
    <<origin[1] + col - offset[2], origin[2] + 2 * (row - offset[1])>>

\* xy_to_rowcol(x, y, offset): (row, col)
XYToRowCol(origin, x, y, offset) ==
    <<(y - origin[2]) \div 2 + offset[1], x - origin[1] + offset[2]>>

\* ------------------------------------------------------------ get_segment
\* a rich Segment: its text (count repetitions of one character) and style
Segment(text, count, color, bgcolor) ==
    [text |-> text, count |-> count, color |-> color, bgcolor |-> bgcolor]

\* image.getpixel(position) on the resized image of a level
Pixel(level, position) == <<level, position[1], position[2]>>

\* the positions get_segment(x, y) hands to getpixel
SampledPositions(img_size, x, y) ==
    (IF y >= 0 THEN {<<x, y>>} ELSE {}) \cup
    (IF y < img_size[2] - 1 THEN {<<x, y + 1>>} ELSE {})

\* the Segment get_segment builds on a cache miss
NewSegment(level, img_size, x, y) ==
    LET upper == IF y >= 0 THEN Pixel(level, <<x, y>>) ELSE None
        lower == IF y < img_size[2] - 1 THEN Pixel(level, <<x, y + 1>>) ELSE None
    IN  IF upper = None
        THEN Segment("lower_half_block", 1, lower, None)
        ELSE Segment("upper_half_block", 1, upper, lower)

\* (mutant) one position cache shared by all levels
CacheKeyShared(z) == 0

\* the key of self.segment_cache that get_segment uses: self._zoom
CacheKey(z) == z

\* get_segment(x, y): the segment cache it leaves and the Segment it returns
GetSegmentCall(imgs, cache, z, x, y) ==
    LET key == CacheKey(z)
        c == cache[key]
        position == <<x, y>>
        c2 == IF position \in DOMAIN c THEN c
              ELSE [q \in DOMAIN c \cup {position} |->
                       IF q = position
                       THEN NewSegment(z, imgs[z], x, y)
                       ELSE c[q]]
    IN  [segment_cache |-> [cache EXCEPT ![key] = c2], ret |-> c2[position]]

\* positions inside the image of a level (y = -1 is the half row above it)
InImage(img_size, x, y) ==
    /\ 0 <= x /\ x < img_size[1]
    /\ -1 <= y /\ y < img_size[2]

\* number of segments held in the segment cache
CachedCount(cache) ==
    Cardinality(UNION {{<<l, q>> : q \in DOMAIN cache[l]} : l \in DOMAIN cache})

GetSegment(x, y) ==
    /\ Constructed
    /\ InImage(zoomed_size, x, y)
    /\ segment_cache' = GetSegmentCall(images, segment_cache, zoom, x, y).segment_cache
    /\ CachedCount(segment_cache') <= MaxCached
    /\ last' = Call("get_segment", <<x, y>>)
    /\ UNCHANGED <<image, images, zoom, container_size, origin_position, raised>>

\* ------------------------------------------------------- __rich_console__
\* the values of range(first, stop, 2), in order
RangeBy2(first, stop) ==
    [i \in 1 .. (IF stop > first THEN (stop - first + 1) \div 2 ELSE 0) |->
        first + 2 * (i - 1)]

\* the values of range(first, stop), in order
Range(first, stop) ==
    [i \in 1 .. (IF stop > first THEN stop - first ELSE 0) |-> first + i - 1]

\* the y of each output row, and the x of each cell of a row with image on it
RowYs(img_size, container, origin) ==
    RangeBy2(origin[2], Min(origin[2] + container[2] * 2, img_size[2]))

\* (mutant) x_start left at a negative origin_x
RowXsFromOrigin(img_size, container, origin) ==
    Range(origin[1], Min(origin[1] + container[1], img_size[1]))

RowXs(img_size, container, origin) ==
    LET x_start == IF origin[1] < 0 THEN 0 ELSE origin[1]
    IN  Range(x_start, Min(x_start + container[1], img_size[1]))

\* (mutant) the half row above the image skipped too
RowSkippedAboveZero(y) == y < 0

\* "Skip lines with no image"
RowSkipped(y) == y < -1

\* the (x, y) for which a render calls get_segment, in call order
RECURSIVE RenderCalls(_, _, _, _)
RenderCalls(img_size, container, origin, i) ==
    LET ys == RowYs(img_size, container, origin)
        xs == RowXs(img_size, container, origin)
    IN  IF i > Len(ys) THEN <<>>
        ELSE (IF RowSkipped(ys[i]) THEN <<>>
              ELSE [k \in 1 .. Len(xs) |-> <<xs[k], ys[i]>>])
             \o RenderCalls(img_size, container, origin, i + 1)

\* the segment cache after the calls of a sequence of positions
RECURSIVE CacheAfter(_, _, _, _, _)
CacheAfter(imgs, cache, z, calls, i) ==
    IF i > Len(calls) THEN cache
    ELSE CacheAfter(imgs,
                    GetSegmentCall(imgs, cache, z, calls[i][1], calls[i][2]).segment_cache,
                    z, calls, i + 1)

Newline == Segment("newline", 1, None, None)
Padding(n) == Segment("space", n, None, None)

\* the list of segments __rich_console__ returns, from row i on
RECURSIVE RenderRows(_, _, _, _, _, _)
RenderRows(imgs, cache, z, container, origin, i) ==
    LET ys == RowYs(imgs[z], container, origin)
        xs == RowXs(imgs[z], container, origin)
    IN  IF i > Len(ys) THEN <<>>
        ELSE (IF RowSkipped(ys[i]) THEN <<Newline>>
              ELSE (IF origin[1] < 0 THEN <<Padding(-origin[1])>> ELSE <<>>)
                   \o [k \in 1 .. Len(xs) |->
                          GetSegmentCall(imgs, cache, z, xs[k], ys[i]).ret]
                   \o <<Newline>>)
             \o RenderRows(imgs, cache, z, container, origin, i + 1)

\* __rich_console__: the segment cache it leaves and the segments it returns
RenderCall(imgs, cache, z, container, origin) ==
    IF container = None
    THEN [segment_cache |-> cache, segments |-> <<>>]
    ELSE [segment_cache |->
              CacheAfter(imgs, cache, z,
                         RenderCalls(imgs[z], container, origin, 1), 1),
          segments |-> RenderRows(imgs, cache, z, container, origin, 1)]

\* the render of the current state
RenderNow == RenderCall(images, segment_cache, zoom, container_size, origin_position)

Render ==
    /\ Constructed
    /\ segment_cache' = RenderNow.segment_cache
    /\ CachedCount(segment_cache') <= MaxCached
    /\ last' = Call("__rich_console__", <<>>)
    /\ UNCHANGED <<image, images, zoom, container_size, origin_position, raised>>

Next ==
    \/ \E l \in ZoomLevels : SetZoom(l, None)
    \/ \E d \in ZoomDeltas : Zoom(d, None)
    \/ \E d \in ScrollDeltas, a \in Anchors : Zoom(d, a)
    \/ \E d \in MoveDeltas : Move(d)
    \/ \E v \in OriginValues : SetOrigin(v)
    \/ \E c \in ContainerSizes, m \in BOOLEAN : SetContainerSize(c, m)

Spec == Init /\ [][Next]_vars

\* The scenario: the default construction on the 16 x 16 image, shown in the
\* 8 x 4 container at zoom level 0.
InitScenario == InitWith(ScenarioImage, 0, <<0, 0>>, None)

NextScenario ==
    \/ \E m \in BOOLEAN : SetContainerSize(ScenarioContainer, m)
    \/ \E d \in MoveDeltas : Move(d)
    \/ \E v \in OriginValues : SetOrigin(v)

SpecScenario == InitScenario /\ [][NextScenario]_vars

\* The view with its segment cache in use: get_segment and __rich_console__
\* are called between the changes of zoom level and origin.
InitCache == InitWith(CacheImage, 0, <<0, 0>>, None)

NextCache ==
    \/ \E c \in CacheContainers : SetContainerSize(c, TRUE)
    \/ \E l \in CacheZoomLevels : SetZoom(l, None)
    \/ \E d \in {-1, 1} : Zoom(d, None)
    \/ \E v \in OriginValues : SetOrigin(v)
    \/ \E q \in CacheProbes : GetSegment(q[1], q[2])
    \/ Render

SpecCache == InitCache /\ [][NextCache]_vars

\* ================================================================ claims
\* a container size is set and has at least one cell on each axis
HasContainer ==
    /\ Constructed
    /\ container_size # None
    /\ container_size[1] >= 1
    /\ container_size[2] >= 1

\* C1: whenever a container size (w, h) with w >= 1 and h >= 1 is set, the
\* stored origin satisfies -(w-1) <= origin_x <= imgW-1 and
\* -(2h-1) <= origin_y <= imgH-1, imgW x imgH being the size of the image at
\* the current zoom level.
C1_OriginInRange ==
    HasContainer =>
        /\ -(container_size[1] - 1) <= origin_position[1]
        /\ origin_position[1] <= zoomed_size[1] - 1
        /\ -(2 * container_size[2] - 1) <= origin_position[2]
        /\ origin_position[2] <= zoomed_size[2] - 1

\* an assignment far beyond the image's bottom right corner has been clamped
\* to the last column and row of a zoomed-out image
C1_Witness ==
    /\ HasContainer
    /\ zoom > 0
    /\ last = Call("origin_position", <<100, 100>>)
    /\ origin_position = <<zoomed_size[1] - 1, zoomed_size[2] - 1>>

\* C2: after construction and after any set_zoom(level) and zoom(delta),
\* negative levels and deltas below the current level included, the current
\* zoom level is >= 0 (and so is every cached level).
C2_ZoomNeverNegative ==
    Constructed => zoom >= 0 /\ \A l \in DOMAIN images : l >= 0

\* a call with a negative level, resp. a delta below the current level, has
\* been made with a container size set
C2_Witness ==
    /\ HasContainer
    /\ zoom = 0
    /\ \/ last.op = "set_zoom" /\ last.args[1] < 0
       \/ last.op = "zoom" /\ last.args[1] = -2

\* C3: a set_zoom request whose level, floored at 0, is above the current
\* level while the smaller dimension of the current zoomed image is <= 8
\* leaves the zoom level, the origin, the container size (which set_zoom never
\* assigns) and the cached levels as they were.
C3_RejectedRequestChangesNothing ==
    Constructed =>
        \A l \in ZoomLevels, a \in Anchors \cup {None} :
            (Max(l, 0) > zoom /\ Min(zoomed_size[1], zoomed_size[2]) <= 8) =>
                LET r == SetZoomNow(l, a)
                IN  /\ r.raised = "none"
                    /\ r.zoom = zoom
                    /\ r.origin_position = origin_position
                    /\ r.images = images
                    /\ DOMAIN r.segment_cache = DOMAIN segment_cache

\* a request for a higher level has been made, and dropped, at a level whose
\* image has a dimension <= 8
C3_Witness ==
    /\ HasContainer
    /\ Min(zoomed_size[1], zoomed_size[2]) <= 8
    /\ last.op = "set_zoom"
    /\ last.args[1] > zoom

\* the cell of section 4.1: upper half block coloured by pixel (x, y) on the
\* pixel (x, y+1) when y >= 0, lower half block coloured by pixel (x, y+1)
\* otherwise; pixels are those of the given level's image
ExpectedCell(level, img_size, x, y) ==
    IF y >= 0
    THEN Segment("upper_half_block", 1, <<level, x, y>>,
                 IF y + 1 < img_size[2] THEN <<level, x, y + 1>> ELSE None)
    ELSE Segment("lower_half_block", 1, <<level, x, y + 1>>, None)

\* C4: every memoized cell of a level is the cell computed from that level's
\* own image, get_segment(x, y) returns the cell computed from the current
\* level's image at (x, y) and (x, y+1), and a second call returns the same.
C4_CellsComeFromOwnLevel ==
    Constructed =>
        /\ \A l \in DOMAIN segment_cache : \A q \in DOMAIN segment_cache[l] :
               segment_cache[l][q] = ExpectedCell(l, images[l], q[1], q[2])
        /\ \A x \in 0 .. zoomed_size[1] - 1, y \in -1 .. zoomed_size[2] - 1 :
               LET first == GetSegmentCall(images, segment_cache, zoom, x, y)
                   again == GetSegmentCall(images, first.segment_cache, zoom, x, y)
               IN  /\ first.ret = ExpectedCell(zoom, zoomed_size, x, y)
                   /\ again.ret = first.ret
                   /\ again.segment_cache = first.segment_cache

\* get_segment has just been called at a position that another level has
\* memoized too
C4_Witness ==
    /\ Constructed
    /\ last.op = "get_segment"
    /\ last.args \in DOMAIN segment_cache[zoom]
    /\ \E l \in DOMAIN segment_cache :
           l # zoom /\ last.args \in DOMAIN segment_cache[l]

\* C5: set_zoom(L) with the default anchor, called again right after
\* set_zoom(L), changes neither the zoom level nor the origin nor an entry of
\* the two caches.
C5_SetZoomTwice ==
    (Constructed /\ last.op = "set_zoom" /\ last.args[2] = None) =>
        LET r == SetZoomNow(last.args[1], None)
        IN  /\ r.raised = "none"
            /\ r.zoom = zoom
            /\ r.origin_position = origin_position
            /\ r.images = images
            /\ r.segment_cache = segment_cache

\* set_zoom(L) with the default anchor has just made a zoomed-out level
\* current, with the origin moved off the top left corner
C5_Witness ==
    /\ HasContainer
    /\ last.op = "set_zoom"
    /\ last.args[2] = None
    /\ last.args[1] = zoom
    /\ zoom > 0
    /\ origin_position[1] > 0
    /\ origin_position[2] > 0

\* the nearest value to v in lo .. hi
ClampedInto(v, lo, hi) == IF v < lo THEN lo ELSE IF v > hi THEN hi ELSE v

\* the range of section 4.2 for the origin, per axis (no container: w = h = 0)
OriginLow ==
    IF container_size = None THEN <<1, 1>>
    ELSE <<-(container_size[1] - 1), -(2 * container_size[2] - 1)>>

OriginHigh == <<zoomed_size[1] - 1, zoomed_size[2] - 1>>

\* C6: move(dx, dy) leaves the origin at (origin_x - dx, origin_y - dy)
\* clamped into the origin's range, and when neither move(dx, dy) nor the
\* move(-dx, -dy) after it is altered by clamping, the origin is back where it
\* was.
C6_MoveAndBack ==
    Constructed =>
        \A d \in MoveDeltas \cup FastDeltas :
            LET size == zoomed_size
                target == <<origin_position[1] - d[1], origin_position[2] - d[2]>>
                o1 == MoveCall(origin_position, size, container_size, d)
                back == <<-d[1], -d[2]>>
                o2 == MoveCall(o1, size, container_size, back)
            IN  /\ o1 = <<ClampedInto(target[1], OriginLow[1], OriginHigh[1]),
                          ClampedInto(target[2], OriginLow[2], OriginHigh[2])>>
                /\ (o1 = target /\ o2 = <<o1[1] + d[1], o1[2] + d[2]>>) =>
                       o2 = origin_position

\* a move has been made that clamping did not alter (the origin is strictly
\* inside its range), and the move back is not altered either
C6_Witness ==
    /\ HasContainer
    /\ last.op = "move"
    /\ \A i \in {1, 2} :
           OriginLow[i] < origin_position[i] /\ origin_position[i] < OriginHigh[i]
    /\ MoveCall(origin_position, zoomed_size, container_size,
                <<-last.args[1], -last.args[2]>>)
           = <<origin_position[1] + last.args[1], origin_position[2] + last.args[2]>>

\* row, col -> x, y -> row, col gives back (row, col)
RowColRoundTrip ==
    \A off \in Offsets, row \in CellRows, col \in CellCols :
        LET xy == RowColToXY(origin_position, row, col, off)
        IN  XYToRowCol(origin_position, xy[1], xy[2], off) = <<row, col>>

\* x, y -> row, col -> x, y gives back (x, y), for the y of ys
XYRoundTrip(ys) ==
    \A off \in Offsets, x \in PointXs, y \in ys :
        LET rc == XYToRowCol(origin_position, x, y, off)
        IN  RowColToXY(origin_position, rc[1], rc[2], off) = <<x, y>>

\* C7 (as claimed): rowcol_to_xy and xy_to_rowcol are inverses of each other
\* in both directions, for all x and all y that are multiples of 2, whatever
\* the origin.
C7_InversesForEvenY ==
    Constructed => RowColRoundTrip /\ XYRoundTrip(EvenYs)

\* C7 (amended): they are inverses in both directions for all x and all y
\* with y - origin_y a multiple of 2.
C7_InversesForRowAlignedY ==
    Constructed =>
        /\ RowColRoundTrip
        /\ XYRoundTrip({origin_position[2] + 2 * k : k \in -2 .. 2})

\* positions are converted while the origin's y is odd
C7_Witness ==
    /\ HasContainer
    /\ last.op = "move"
    /\ origin_position[2] % 2 = 1

Abs(n) == IF n < 0 THEN -n ELSE n

\* C8: when set_zoom with an explicit anchor changes the level while a
\* container size is set and clamping does not alter the new origin, the
\* anchor's display offset after the call (anchor * new_size / old_size - new
\* origin) is within one pixel of its display offset before (anchor - old
\* origin), on each axis.
C8_AnchorStaysPut ==
    (Constructed /\ container_size # None) =>
        \A l \in ZoomLevels, a \in Anchors :
            LET r == SetZoomNow(l, a)
                old == zoomed_size
                new == r.images[r.zoom]
            IN  (r.zoom # zoom /\ r.origin_position = r.value) =>
                    \A i \in {1, 2} :
                        Abs((a[i] * new[i] - r.origin_position[i] * old[i])
                            - (a[i] - origin_position[i]) * old[i]) <= old[i]

\* zoom(-1) with an explicit anchor has just changed the level from 2 to 1 and
\* clamping did not alter the origin (it is strictly inside its range)
C8_Witness ==
    /\ HasContainer
    /\ last.op = "zoom"
    /\ last.args[1] = -1
    /\ last.args[2] # None
    /\ zoom = 1
    /\ \A i \in {1, 2} :
           OriginLow[i] < origin_position[i] /\ origin_position[i] < OriginHigh[i]

\* the zoom position set_zoom uses without an anchor is (x, y), and the value
\* it assigns to origin_position is the origin shifted by the rounded
\* difference between the scaled and the unscaled (x, y)
DefaultAnchorIs(x, y) ==
    \A l \in ZoomLevels :
        LET r == SetZoomNow(l, None)
            old == zoomed_size
            new == r.images[r.zoom]
        IN  /\ r.anchor = <<x, y>>
            /\ r.value = <<origin_position[1] + Round(x * (new[1] - old[1]), old[1]),
                           origin_position[2] + Round(y * (new[2] - old[2]), old[2])>>

\* C9 (as claimed): without an anchor and with a container size (w, h) set,
\* the anchor used is (origin_x + w div 2, origin_y + 2*h), the bottom centre
\* of the container.
C9_DefaultAnchorIsBottomCentre ==
    (Constructed /\ container_size # None) =>
        DefaultAnchorIs(origin_position[1] + container_size[1] \div 2,
                        origin_position[2] + 2 * container_size[2])

\* C9 (amended): the anchor used is (origin_x + w div 2, origin_y + h), the
\* centre of the container, which is 2*h pixels tall.
C9_DefaultAnchorIsCentre ==
    (Constructed /\ container_size # None) =>
        DefaultAnchorIs(origin_position[1] + container_size[1] \div 2,
                        origin_position[2] + container_size[2])

\* zoom without an anchor has just changed the level of a view with a
\* container size
C9_Witness ==
    /\ HasContainer
    /\ last.op = "zoom"
    /\ last.args = <<-1, None>>
    /\ zoom = 1

\* the lines of a list of segments: the segments before each newline
RECURSIVE SplitLines(_, _, _)
SplitLines(segments, i, line) ==
    IF i > Len(segments) THEN (IF line = <<>> THEN <<>> ELSE <<line>>)
    ELSE IF segments[i].text = "newline"
         THEN <<line>> \o SplitLines(segments, i + 1, <<>>)
         ELSE SplitLines(segments, i + 1, Append(line, segments[i]))

RenderedLines == SplitLines(RenderNow.segments, 1, <<>>)

\* scenario B: the 16 x 16 image at level 0 in the 8 x 4 container, the origin
\* just set to (-20, -20)
ScenarioB ==
    /\ Constructed
    /\ image = <<16, 16>>
    /\ zoom = 0
    /\ container_size = <<8, 4>>
    /\ last = Call("origin_position", <<-20, -20>>)

\* one output line per row, and the rows with y < -1 are empty lines
SkippedRowsAreEmptyLines ==
    LET ys == RowYs(zoomed_size, container_size, origin_position)
    IN  /\ Len(RenderedLines) = Len(ys)
        /\ \A i \in 1 .. Len(ys) : (ys[i] < -1) <=> (RenderedLines[i] = <<>>)

\* every line that is not empty begins with n padding cells
LinesBeginWithPadding(n) ==
    \A i \in 1 .. Len(RenderedLines) :
        RenderedLines[i] # <<>> =>
            RenderedLines[i][1] = [text |-> "space", count |-> n,
                                   color |-> None, bgcolor |-> None]

\* C10 (as claimed): in scenario B each output line begins with 20 padding
\* cells and the rows with y < -1 are emitted as empty lines.
C10_TwentyPaddingCells ==
    ScenarioB => LinesBeginWithPadding(20) /\ SkippedRowsAreEmptyLines

\* C10 (amended): in scenario B the origin is clamped to (-7, -7); the render
\* has four lines, the first three (y = -7, -5, -3) empty and the fourth
\* (y = -1) beginning with 7 padding cells.
C10_SevenPaddingCells ==
    ScenarioB =>
        /\ origin_position = <<-7, -7>>
        /\ LinesBeginWithPadding(7)
        /\ SkippedRowsAreEmptyLines
        /\ Len(RenderedLines) = 4
        /\ \A i \in 1 .. 3 : RenderedLines[i] = <<>>
        /\ RenderedLines[4] # <<>>

C10_Witness == ScenarioB

\* the container has no cell on one axis at least
Degenerate(container) == container[1] <= 0 \/ container[2] <= 0

\* the render that follows set_container_size(new, maintain_center) called in
\* the current state
RenderAfterResize(new, maintain_center) ==
    RenderCall(images, segment_cache, zoom, new,
               SetContainerSizeCall(origin_position, zoomed_size,
                                    container_size, new, maintain_center))

\* every get_segment call of a render is one getpixel accepts (no IndexError)
RenderRaisesNothing(new, maintain_center) ==
    LET o == SetContainerSizeCall(origin_position, zoomed_size, container_size,
                                  new, maintain_center)
        calls == RenderCalls(zoomed_size, new, o, 1)
    IN  \A i \in 1 .. Len(calls) : InImage(zoomed_size, calls[i][1], calls[i][2])

\* C11: for every container size whose width or height (or both) is zero or
\* negative, set_container_size and the render after it raise nothing and the
\* render has no lines at all, in every reachable zoom/origin state.
C11_DegenerateContainerRendersNothing ==
    Constructed =>
        /\ \A d \in DegenerateSizes, m \in BOOLEAN :
               /\ RenderRaisesNothing(d, m)
               /\ RenderAfterResize(d, m).segments = <<>>
        /\ (container_size # None /\ Degenerate(container_size)) =>
               RenderNow.segments = <<>>

\* the constructor has just been called with these arguments
ConstructedWith(z, o, c) == last = Call("__init__", <<z, o, c>>)

\* C12: constructing an ImageView with a non-negative zoom, any
\* origin_position and container_size None or a (w, h) pair completes without
\* error and leaves the requested zoom level (the current level where the
\* upper-bound guard drops the request) and the container size given.
C12_ConstructionSucceeds ==
    \A z \in InitZooms, o \in InitOrigins, c \in InitContainers :
        (ConstructedWith(z, o, c) /\ z >= 0) =>
            /\ raised = "none"
            /\ zoom = (IF z > 0 /\ Min(image[1], image[2]) <= MinDim THEN 0 ELSE z)
            /\ container_size = c

\* C13: an ImageView constructed with the default arguments (zoom 0,
\* origin_position (0, 0), no container size) has origin_position (0, 0) right
\* after construction, and still (0, 0) after a first set_container_size(w, h)
\* with w >= 1 and h >= 1.
C13_DefaultOriginIsZero ==
    ConstructedWith(0, <<0, 0>>, None) =>
        /\ raised = "none"
        /\ origin_position = <<0, 0>>
        /\ \A c \in ContainerSizes, m \in BOOLEAN :
               (c[1] >= 1 /\ c[2] >= 1) =>
                   SetContainerSizeCall(origin_position, zoomed_size,
                                        container_size, c, m) = <<0, 0>>

\* C14: set_container_size(w', h', maintain_center = true), called when a
\* container size (w, h) is set and clamping does not alter the result, keeps
\* the image-space point at the container's centre: origin_x' + w' div 2 =
\* origin_x + w div 2 and origin_y' + h' = origin_y + h, for even and odd old
\* and new widths.
C14_CentreKept ==
    (Constructed /\ container_size # None) =>
        \A new \in NewSizes :
            LET o2 == SetContainerSizeCall(origin_position, zoomed_size,
                                           container_size, new, TRUE)
            IN  o2 = CenteredOrigin(origin_position, container_size, new) =>
                    /\ o2[1] + new[1] \div 2
                           = origin_position[1] + container_size[1] \div 2
                    /\ o2[2] + new[2] = origin_position[2] + container_size[2]

\* set_container_size(3, 2, maintain_center = true) has just made the width
\* odd and left the origin strictly inside its range; the origin's x is <= 0,
\* which only a move under an earlier container size can have produced
C14_Witness ==
    /\ HasContainer
    /\ last = Call("set_container_size", <<(<<3, 2>>), TRUE>>)
    /\ origin_position[1] <= 0
    /\ \A i \in {1, 2} :
           OriginLow[i] < origin_position[i] /\ origin_position[i] < OriginHigh[i]

\* every cached level of the state before the step is still cached after it,
\* with the same resized image and with every memoized cell unchanged
CachedLevelsKept ==
    \A l \in DOMAIN images :
        /\ l \in DOMAIN images'
        /\ images'[l] = images[l]
        /\ l \in DOMAIN segment_cache'
        /\ \A q \in DOMAIN segment_cache[l] :
               /\ q \in DOMAIN segment_cache'[l]
               /\ segment_cache'[l][q] = segment_cache[l][q]

\* C15: over any sequence of operations the set of cached zoom levels only
\* grows: no move, zoom, set_zoom, set_container_size, get_segment or render
\* removes or replaces a level's resized image or its cell cache, and a level
\* has a resized image exactly when it has a cell cache.
C15_CacheOnlyGrows ==
    /\ [](DOMAIN images = DOMAIN segment_cache)
    /\ [][CachedLevelsKept]_vars

\* a level other than the current one holds a memoized cell after a call that
\* came later than the get_segment call that memoized it
C15_Witness ==
    /\ HasContainer
    /\ last.op \in {"set_zoom", "zoom", "origin_position", "set_container_size"}
    /\ \E l \in DOMAIN segment_cache : l # zoom /\ segment_cache[l] # <<>>

\* a segment that get_segment returned (an image cell, not padding)
IsImageCell(segment) ==
    segment.text \in {"upper_half_block", "lower_half_block"}

\* the number of columns that the segments before the k-th take on a line
RECURSIVE ColumnsBefore(_, _)
ColumnsBefore(line, k) ==
    IF k <= 1 THEN 0 ELSE ColumnsBefore(line, k - 1) + line[k - 1].count

\* C16: in every reachable state with a container size (w, h), w >= 1 and
\* h >= 1, the render has at least one image cell, on one of the first h
\* output lines and within the first w columns of its line.
C16_ImageCellInContainer ==
    HasContainer =>
        LET lines == RenderedLines
        IN  \E i \in 1 .. Len(lines) :
                /\ i <= container_size[2]
                /\ \E k \in 1 .. Len(lines[i]) :
                       /\ IsImageCell(lines[i][k])
                       /\ ColumnsBefore(lines[i], k) + 1 <= container_size[1]

\* the origin has been pushed to the far corner of its range: only the last
\* line has image cells, after w - 1 padding cells
C16_Witness ==
    /\ HasContainer
    /\ last = Call("origin_position", <<-20, -20>>)
    /\ origin_position = <<-(container_size[1] - 1), -(2 * container_size[2] - 1)>>
    /\ Len(RenderedLines) = container_size[2]

\* the get_segment calls of the render of the current state
RenderCallsNow == RenderCalls(zoomed_size, container_size, origin_position, 1)

\* C17: in every reachable state with a container size set, every
\* get_segment(x, y) the renderer evaluates has 0 <= x < imgW and
\* -1 <= y < imgH, every pixel it samples ((x, y) when y >= 0, (x, y+1) when
\* y+1 < imgH) lies inside the current level's image, and no padding is
\* emitted when origin_x >= 0.
C17_RenderStaysInImage ==
    (Constructed /\ container_size # None) =>
        LET calls == RenderCallsNow
            segments == RenderNow.segments
        IN  /\ \A i \in 1 .. Len(calls) :
                   LET x == calls[i][1]
                       y == calls[i][2]
                   IN  /\ 0 <= x /\ x < zoomed_size[1]
                       /\ -1 <= y /\ y < zoomed_size[2]
                       /\ SampledPositions(zoomed_size, x, y) # {}
                       /\ \A p \in SampledPositions(zoomed_size, x, y) :
                              /\ 0 <= p[1] /\ p[1] < zoomed_size[1]
                              /\ 0 <= p[2] /\ p[2] < zoomed_size[2]
            /\ origin_position[1] >= 0 =>
                   \A k \in 1 .. Len(segments) : segments[k].text # "space"

\* a render whose first row is the half row above the image, with padding on
\* its left, in a zoomed-out view
C17_Witness ==
    /\ HasContainer
    /\ zoom > 0
    /\ origin_position[1] < 0
    /\ origin_position[2] = -1
    /\ Len(RenderCallsNow) > 0
    /\ RenderCallsNow[1] = <<0, -1>>

\* the smaller dimension of the current zoomed image
MinZoomedDim == Min(zoomed_size[1], zoomed_size[2])

\* C18: after a set_zoom(L) call that the upper-bound guard does not reject,
\* the current zoom level is max(L, 0) and zoomed_size is the size of that
\* level's image, whether or not a container size has been set.
C18_SetZoomSetsLevel ==
    Constructed =>
        \A l \in ZoomLevels :
            ~(Max(l, 0) > zoom /\ MinZoomedDim <= 8) =>
                LET r == SetZoomNow(l, None)
                IN  /\ r.raised = "none"
                    /\ r.zoom = Max(l, 0)
                    /\ r.zoom \in DOMAIN r.images
                    /\ ZoomedSizeOf(r.images, r.zoom) = ResizedSize(image, Max(l, 0))

\* the range of the origin under a container size (w, h), w >= 1 and h >= 1
InOriginRange(o, img_size, container) ==
    /\ -(container[1] - 1) <= o[1] /\ o[1] <= img_size[1] - 1
    /\ -(2 * container[2] - 1) <= o[2] /\ o[2] <= img_size[2] - 1

\* C19: set_container_size(w', h', maintain_center = true) with a previous
\* size clamps with respect to the new size only: whenever the old origin
\* shifted by half the width change and by the full height change lies inside
\* the range of the origin for (w', h'), it is the resulting origin (stated
\* for previous sizes with at least one cell on each axis).
C19_ClampedUnderNewSizeOnly ==
    HasContainer =>
        \A new \in NewSizes :
            LET candidate == <<origin_position[1] + container_size[1] \div 2
                                   - new[1] \div 2,
                               origin_position[2] + container_size[2] - new[2]>>
            IN  InOriginRange(candidate, zoomed_size, new) =>
                    SetContainerSizeCall(origin_position, zoomed_size,
                                         container_size, new, TRUE) = candidate

\* C20: with a container size set, one set_zoom call (and so one zoom call)
\* from a level whose zoomed image has a smaller dimension > 8 to any higher
\* level is accepted and makes that level current, whatever the size of the
\* requested level's image; levels whose image has a dimension below 8 are
\* reached this way.
C20_GuardReadsCurrentLevelOnly ==
    (Constructed /\ container_size # None /\ MinZoomedDim > 8) =>
        \A l \in ZoomLevels, a \in Anchors \cup {None} :
            l > zoom =>
                LET r == SetZoomNow(l, a)
                IN  /\ r.raised = "none"
                    /\ r.zoom = l
                    /\ ZoomedSizeOf(r.images, r.zoom) = ResizedSize(image, l)

\* zoom(2) has just taken the view from level 0 (10 x 12) past level 1
\* (8 x 10) to level 2, whose image is 6 x 8
C20_Witness ==
    /\ HasContainer
    /\ last = Call("zoom", <<2, None>>)
    /\ zoom = 2
    /\ 1 \notin DOMAIN images
    /\ MinZoomedDim < 8

\* the number of cells on a line, padding cells and image cells together
LineWidth(line) == ColumnsBefore(line, Len(line) + 1)

\* C21: in every reachable state with a container size (w, h), w >= 1 and
\* h >= 1, the render fits the container: it has at most h lines and no line
\* holds more than w cells, padding cells and image cells counted together.
C21_RenderFitsContainer ==
    HasContainer =>
        LET lines == RenderedLines
        IN  /\ Len(lines) <= container_size[2]
            /\ \A i \in 1 .. Len(lines) : LineWidth(lines[i]) <= container_size[1]

====
